---- MODULE Spec2Model ----
(***************************************************************************)
(* mcwrap: a session wrapper that starts a console program on a            *)
(* pseudo-terminal, shares the terminal over a Unix socket and keeps a     *)
(* sanitized transcript.                                                    *)
(*                                                                         *)
(* Five state machines are modelled, each with its own specification:      *)
(*   SpecFilter  - filter_for_log (pty.rs), one loop iteration per step    *)
(*   Spec        - the command line operations of main.rs (start, stop,    *)
(*                 status, send) against the session storage, the child    *)
(*                 and the daemon                                          *)
(*   SpecDaemon  - the three activities of the daemon of pty.rs (accept    *)
(*                 thread, forwarding thread, main loop) and its clients   *)
(*   SpecStart   - one start in terminal mode, process by process: the      *)
(*                 invoking process, the child, the intermediate fork and   *)
(*                 the daemon, and who holds which end of the terminal      *)
(*   SpecAttach  - one attached client of attach_pty (main.rs): the signal  *)
(*                 task, the two forwarding tasks and the select            *)
(***************************************************************************)
EXTENDS Integers, Sequences, FiniteSets, TLC

VARIABLES
    \* ---- filter_for_log and the transcript (pty.rs 238-244, 279-333)
    stream,       \* terminal output not yet read from the master
    consumed,     \* terminal output read from the master so far
    fdata,        \* data: the chunk being filtered
    fi,           \* i: index of the next byte of data (1-based here)
    fresult,      \* result: the bytes kept so far
    line_start,   \* line_start: local of filter_for_log
    transcript,   \* the bytes appended to console.log so far
    fpc,          \* "read" | "loop" | "ret"
    \* ---- session storage, processes and command line invocations (main.rs)
    fs,           \* the wrap directory of the target: dir, state.json, console.log, pty.sock
    child,        \* per session: the forked child running the console program
    daemon,       \* per session: the daemonized process that holds the master
    nsess,        \* how many sessions have been spawned (a session's pid is its number)
    cli,          \* per invoking process: the command it runs and where it is
    ret,          \* what the step just taken returned to the caller of mcwrap, if it returned
    cmds,         \* how many commands have been invoked
    \* ---- one daemon, its child and its clients (pty.rs 156-276)
    clients,      \* clients: the Vec<UnixStream> behind the mutex, as connection ids
    lock,         \* who holds the mutex: "free" | "accept" | "fwd" | "main"
    conn,         \* per connection: both ends of the socket
    running,      \* running: the AtomicBool
    dchild,       \* the child on the slave side: "alive" | "dead"
    ptyOut,       \* bytes the child has written that the master has not read yet
    nprod,        \* how many bytes the child has written (byte k is the number k)
    ptyIn,        \* what has been written to the master (the child's input)
    inq,          \* how many of these lines the child has not read yet
    cblocked,     \* the child is inside a write on the full output queue
    mpc,          \* main loop: "read" | "lock" | "bcast" | "remove" | "cleanup" | "exited"
    mdata,        \* data: the chunk the main loop read last
    mi,           \* the broadcast's position in clients
    main_to_remove, \* to_remove of the broadcast
    sent,         \* what each client of the broadcast was sent, by index
    wpc,          \* forwarding thread: "check" | "scan" | "stopped"
    apc,          \* accept thread: "accept" | "stopped"
    master_open,  \* the daemon holds master_fd open
    sock_file,    \* the endpoint file exists
    nenv,         \* how many steps the clients and the child have taken
    \* ---- one start in terminal mode (main.rs 320-341, pty.rs 27-157)
    spawn,        \* per process of the start: where it is
    master_fd,    \* the processes that hold the master end open
    slave_fd,     \* the processes that hold the slave end open
    state_file,   \* the pid in state.json, 0 while there is no record
    closed,       \* how many times the daemon has called close on the master
    \* ---- one attached client (main.rs 359-457)
    a_running,    \* running: the AtomicBool of attach_pty
    sigint,       \* "none" | "pending" (delivered, not yet received) | "taken"
    out_pc,       \* socket to stdout task: "check" | "read" | "write" | "done"
    in_pc,        \* stdin to socket task: "check" | "read" | "write" | "done"
    att_pc,       \* attach_pty itself: "select" | "restore" | "returned"
    termios,      \* the invoking terminal: "raw" | "orig"
    from_daemon,  \* bytes the daemon has sent that the client has not read
    keys,         \* bytes typed that the client has not read
    a_stream      \* the connection: "open" | "eof" (daemon closed it) | "dropped"

filtVars == <<stream, consumed, fdata, fi, fresult, line_start, transcript, fpc>>

lifeVars == <<fs, child, daemon, nsess, cli, ret, cmds>>

dmnVars == <<clients, lock, conn, running, dchild, ptyOut, nprod, ptyIn, inq, cblocked,
             mpc, mdata, mi, main_to_remove, sent, wpc, apc, master_open, sock_file, nenv>>

spawnVars == <<spawn, master_fd, slave_fd, state_file, closed>>

attVars == <<a_running, sigint, out_pc, in_pc, att_pc, termios, from_daemon, keys, a_stream>>

vars == <<filtVars, lifeVars, dmnVars, spawnVars, attVars>>

(***************************************************************************)
(* Bytes                                                                   *)
(***************************************************************************)
ESC == 27
LBRACKET == 91
SGR_m == 109
CUP_H == 72
GT == 62
SPACE == 32
CR == 13
LF == 10

\* The bytes the terminal output is drawn from: one representative of each
\* class filter_for_log distinguishes. CUP_H is a terminator that is not 'm';
\* SPACE and GT are below 0x40 and so are parameter bytes inside a sequence.
Bytes == {ESC, LBRACKET, SGR_m, CUP_H, GT, SPACE, CR, LF}

MaxLen == 4

Chunks == UNION {[1..n -> Bytes] : n \in 0..MaxLen}

(***************************************************************************)
(* filter_for_log                                                          *)
(***************************************************************************)
\* (0x40..=0x7E).contains(&c)
IsTerminator(c) == c >= 64 /\ c <= 126

\* if c == b'm' { result.extend_from_slice(&data[start..i]) }
KeepsHMut(c) == c = SGR_m \/ c = CUP_H
KeepsSequence(c) == c = SGR_m

\* The inner while loop: the index of the first terminator at or after from,
\* or 0 when the chunk ends first.
RECURSIVE TermIndex(_, _)
TermIndex(data, from) ==
    IF from > Len(data) THEN 0
    ELSE IF IsTerminator(data[from]) THEN from
    ELSE TermIndex(data, from + 1)

\* line_start && i + 1 < data.len() && data[i] == b'>' && data[i + 1] == b' '
AtPrompt(data, i, ls) ==
    ls /\ i + 1 <= Len(data) /\ data[i] = GT /\ data[i + 1] = SPACE

\* data[i] == 0x1b && i + 1 < data.len() && data[i + 1] == b'['
AtCSI(data, i) ==
    data[i] = ESC /\ i + 1 <= Len(data) /\ data[i + 1] = LBRACKET

\* !result.is_empty() && result.last() != Some(&b'\n')
EmitsNewline(result) == Len(result) > 0 /\ result[Len(result)] # LF

Slice(s, a, b) == IF a > b THEN <<>> ELSE SubSeq(s, a, b)

\* libc::read returned n > 0 bytes; filter_for_log(data) starts
ReadChunk(n) ==
    /\ fpc = "read"
    /\ n >= 1 /\ n <= Len(stream)
    /\ fdata' = SubSeq(stream, 1, n)
    /\ stream' = Slice(stream, n + 1, Len(stream))
    /\ consumed' = consumed \o SubSeq(stream, 1, n)
    /\ fi' = 1
    /\ fresult' = <<>>
    /\ line_start' = TRUE
    /\ fpc' = "loop"
    /\ UNCHANGED transcript

FilterPrompt ==
    /\ fpc = "loop" /\ fi <= Len(fdata)
    /\ AtPrompt(fdata, fi, line_start)
    /\ fi' = IF fi + 2 <= Len(fdata) /\ fdata[fi + 2] = LF THEN fi + 3 ELSE fi + 2
    /\ UNCHANGED <<stream, consumed, fdata, fresult, line_start, transcript, fpc>>

FilterCSI ==
    /\ fpc = "loop" /\ fi <= Len(fdata)
    /\ ~AtPrompt(fdata, fi, line_start)
    /\ AtCSI(fdata, fi)
    /\ LET t == TermIndex(fdata, fi + 2) IN
         IF t = 0
         THEN /\ fi' = Len(fdata) + 1
              /\ UNCHANGED fresult
         ELSE /\ fi' = t + 1
              /\ fresult' = IF KeepsSequence(fdata[t])
                            THEN fresult \o SubSeq(fdata, fi, t)
                            ELSE fresult
    /\ line_start' = FALSE
    /\ UNCHANGED <<stream, consumed, fdata, transcript, fpc>>

FilterCR ==
    /\ fpc = "loop" /\ fi <= Len(fdata)
    /\ ~AtPrompt(fdata, fi, line_start)
    /\ ~AtCSI(fdata, fi)
    /\ fdata[fi] = CR
    /\ fi' = fi + 1
    /\ UNCHANGED <<stream, consumed, fdata, fresult, line_start, transcript, fpc>>

FilterLF ==
    /\ fpc = "loop" /\ fi <= Len(fdata)
    /\ ~AtPrompt(fdata, fi, line_start)
    /\ ~AtCSI(fdata, fi)
    /\ fdata[fi] = LF
    /\ fresult' = IF EmitsNewline(fresult) THEN Append(fresult, LF) ELSE fresult
    /\ line_start' = TRUE
    /\ fi' = fi + 1
    /\ UNCHANGED <<stream, consumed, fdata, transcript, fpc>>

FilterByte ==
    /\ fpc = "loop" /\ fi <= Len(fdata)
    /\ ~AtPrompt(fdata, fi, line_start)
    /\ ~AtCSI(fdata, fi)
    /\ fdata[fi] # CR /\ fdata[fi] # LF
    /\ fresult' = Append(fresult, fdata[fi])
    /\ line_start' = FALSE
    /\ fi' = fi + 1
    /\ UNCHANGED <<stream, consumed, fdata, transcript, fpc>>

\* the loop ends; log.write_all(&filtered)
FilterReturn ==
    /\ fpc = "loop" /\ fi > Len(fdata)
    /\ fpc' = "ret"
    /\ UNCHANGED <<stream, consumed, fdata, fi, fresult, line_start, transcript>>

LogWrite ==
    /\ fpc = "ret"
    /\ transcript' = transcript \o fresult
    /\ fpc' = "read"
    /\ UNCHANGED <<stream, consumed, fdata, fi, fresult, line_start>>

\* filter_for_log as a function of its argument: the loop run from index i with
\* line_start ls and result so far, to the end of data.
RECURSIVE FilterFrom(_, _, _, _)
FilterFrom(data, i, ls, result) ==
    IF i > Len(data) THEN result
    ELSE IF AtPrompt(data, i, ls)
    THEN FilterFrom(data,
                    IF i + 2 <= Len(data) /\ data[i + 2] = LF THEN i + 3 ELSE i + 2,
                    ls, result)
    ELSE IF AtCSI(data, i)
    THEN LET t == TermIndex(data, i + 2) IN
           IF t = 0 THEN result
           ELSE FilterFrom(data, t + 1, FALSE,
                           IF KeepsSequence(data[t])
                           THEN result \o SubSeq(data, i, t)
                           ELSE result)
    ELSE IF data[i] = CR THEN FilterFrom(data, i + 1, ls, result)
    ELSE IF data[i] = LF
    THEN FilterFrom(data, i + 1, TRUE,
                    IF EmitsNewline(result) THEN Append(result, LF) ELSE result)
    ELSE FilterFrom(data, i + 1, FALSE, Append(result, data[i]))

filter_for_log(data) == FilterFrom(data, 1, TRUE, <<>>)

\* The filter at rest, for the specifications that are not about it.
FilterIdle ==
    /\ stream = <<>>
    /\ consumed = <<>>
    /\ fdata = <<>>
    /\ fi = 1
    /\ fresult = <<>>
    /\ line_start = TRUE
    /\ transcript = <<>>
    /\ fpc = "read"

FilterInit ==
    /\ stream \in Chunks
    /\ consumed = <<>>
    /\ fdata = <<>>
    /\ fi = 1
    /\ fresult = <<>>
    /\ line_start = TRUE
    /\ transcript = <<>>
    /\ fpc = "read"

(***************************************************************************)
(* Session storage and the command line operations (main.rs)               *)
(***************************************************************************)
\* for _ in 0..60
StopCeiling == 60

\* Commands invoked in one behaviour, and the invoking processes that may
\* run at the same time.
MaxCmds == 3
Cli == {1, 2}
Sess == 1..MaxCmds

\* ServerPaths: wrap_dir, state_file, log_file, socket_path. state is
\* "none" (no file), "partial" (created, not yet written in full: it does not
\* parse) or "full" (a ServerState with pid); log says whether the transcript
\* exists; sock names the session whose daemon bound the endpoint file, 0 when
\* there is no such file.
NoStorage == [dir |-> FALSE, state |-> "none", pid |-> 0, log |-> FALSE, sock |-> 0]
EmptyDir == [dir |-> TRUE, state |-> "none", pid |-> 0, log |-> FALSE, sock |-> 0]

\* kill(Pid::from_raw(state.pid), None).is_ok()
LiveInverted(pid) == child[pid] # "alive"
TrustsRecord(pid) == TRUE
Live(pid) == child[pid] = "alive"

\* serde_json::from_reader(File::open(&paths.state_file).ok()?).ok()?
HasRecord == fs.state = "full"

\* is_running(paths).is_some()
RecordExists == HasRecord
is_running == HasRecord /\ Live(fs.pid)

\* fs::remove_dir_all(&paths.wrap_dir)
RemoveStateFileOnly(f) == [f EXCEPT !.state = "none", !.pid = 0]
RemoveNothing(f) == f
RemoveDirAll(f) == NoStorage

\* paths.ensure_dir()
EnsureDir(f) == [f EXCEPT !.dir = TRUE]

\* is_running finds a record whose process is dead
FindsStale == HasRecord /\ ~Live(fs.pid)

\* The storage after is_running: a record whose process is dead is stale and
\* the whole wrap directory is removed.
AfterIsRunning == IF FindsStale THEN RemoveDirAll(fs) ELSE fs

\* UnixStream::connect(&paths.socket_path): the endpoint file exists and the
\* daemon that bound it is listening.
CanConnect == fs.sock # 0 /\ daemon[fs.sock] = "serving"

\* An invocation that is not running: no command, no locals.
Idle == [cmd |-> "none", pc |-> "idle", pid |-> 0, polls |-> 0, stale |-> FALSE]

\* Invocation p runs command c and is at l. pid and polls are the locals
\* state.pid and the loop counter of cmd_stop (for start, pid is the child's);
\* stale says that is_running took its "clean up stale state" branch.
At(p, c, l, pid, st) ==
    [cli EXCEPT ![p] = [cmd |-> c, pc |-> l, pid |-> pid, polls |-> 0, stale |-> st]]

NoRet == [cmd |-> "none", res |-> "none", sigkill |-> FALSE]

\* The invocation of p returns r (sigkill: it sent SIGKILL); its locals are gone.
Returns(p, c, r, k) ==
    /\ cli' = [cli EXCEPT ![p] = Idle]
    /\ ret' = [cmd |-> c, res |-> r, sigkill |-> k]

Goto(p, l) == [cli EXCEPT ![p].pc = l]

\* main: a new invocation of mcwrap with command c, up to the first thing the
\* command does.
Invoke(p, c) ==
    /\ cli[p].pc = "idle"
    /\ cmds < MaxCmds
    /\ cmds' = cmds + 1

\* cmd_start up to the spawn: if is_running(&paths).is_some() { bail!(...) },
\* then remove_dir_all(&paths.wrap_dir) and paths.ensure_dir()
StartCheck(p) ==
    /\ Invoke(p, "start")
    /\ IF is_running
       THEN /\ Returns(p, "start", "AlreadyRunning", FALSE)
            /\ UNCHANGED fs
       ELSE /\ cli' = At(p, "start", "start_spawn", 0, FindsStale)
            /\ fs' = EnsureDir(RemoveDirAll(AfterIsRunning))
            /\ ret' = NoRet
    /\ UNCHANGED <<child, daemon, nsess>>

\* spawn_with_pty up to its return in the invoking process: fork the child,
\* remove_file(socket_path), fork the daemon.
StartSpawn(p) ==
    /\ cli[p].pc = "start_spawn"
    /\ nsess' = nsess + 1
    /\ child' = [child EXCEPT ![nsess + 1] = "alive"]
    /\ daemon' = [daemon EXCEPT ![nsess + 1] = "init"]
    /\ fs' = [fs EXCEPT !.sock = 0]
    /\ cli' = [cli EXCEPT ![p].pc = "start_write", ![p].pid = nsess + 1]
    /\ ret' = NoRet
    /\ UNCHANGED cmds

\* fs::write(&paths.state_file, ...): the file is created (or truncated) ...
StartWriteOpen(p) ==
    /\ cli[p].pc = "start_write"
    /\ IF fs.dir
       THEN /\ fs' = [fs EXCEPT !.state = "partial", !.pid = 0]
            /\ cli' = Goto(p, "start_write2")
            /\ ret' = NoRet
       ELSE /\ Returns(p, "start", "IoError", FALSE)
            /\ UNCHANGED fs
    /\ UNCHANGED <<child, daemon, nsess, cmds>>

\* ... and then written; start_pty_mode returns Ok
StartWriteDone(p) ==
    /\ cli[p].pc = "start_write2"
    /\ fs' = IF fs.dir /\ fs.state = "partial"
             THEN [fs EXCEPT !.state = "full", !.pid = cli[p].pid]
             ELSE fs
    /\ Returns(p, "start", "Started", FALSE)
    /\ UNCHANGED <<child, daemon, nsess, cmds>>

\* cmd_status
Status(p) ==
    /\ Invoke(p, "status")
    /\ Returns(p, "status", IF is_running THEN "Running" ELSE "NotRunning", FALSE)
    /\ fs' = AfterIsRunning
    /\ UNCHANGED <<child, daemon, nsess>>

\* cmd_send, as the result it returns
SendResult ==
    IF ~is_running THEN "NotRunning"
    ELSE IF CanConnect THEN "Sent"
    ELSE "ConnectionError"

\* cmd_send
Send(p) ==
    /\ Invoke(p, "send")
    /\ Returns(p, "send", SendResult, FALSE)
    /\ fs' = AfterIsRunning
    /\ UNCHANGED <<child, daemon, nsess>>

\* cmd_attach: let state = is_running(&paths).context("Server is not running")?
\* and then attach_pty up to UnixStream::connect(&paths.socket_path)
Attach(p) ==
    /\ Invoke(p, "attach")
    /\ Returns(p, "attach",
               IF ~is_running THEN "NotRunning"
               ELSE IF CanConnect THEN "Attached"
               ELSE "ConnectionError", FALSE)
    /\ fs' = AfterIsRunning
    /\ UNCHANGED <<child, daemon, nsess>>

\* cmd_stop: let state = is_running(&paths).context("Server is not running")?
StopCheck(p) ==
    /\ Invoke(p, "stop")
    /\ IF is_running
       THEN /\ cli' = At(p, "stop", "stop_send", fs.pid, FALSE)
            /\ ret' = NoRet
            /\ UNCHANGED fs
       ELSE /\ Returns(p, "stop", "NotRunning", FALSE)
            /\ fs' = AfterIsRunning
    /\ UNCHANGED <<child, daemon, nsess>>

\* cmd_stop: cmd_send(&server_dir, "stop").await?
StopSend(p) ==
    /\ cli[p].pc = "stop_send"
    /\ IF SendResult = "Sent"
       THEN cli' = Goto(p, "stop_poll") /\ ret' = NoRet
       ELSE Returns(p, "stop", SendResult, FALSE)
    /\ fs' = AfterIsRunning
    /\ UNCHANGED <<child, daemon, nsess, cmds>>

\* cmd_stop: one iteration of the polling loop
StopPoll(p) ==
    /\ cli[p].pc = "stop_poll"
    /\ cli[p].polls < StopCeiling
    /\ IF ~Live(cli[p].pid)
       THEN /\ Returns(p, "stop", "Stopped", FALSE)
            /\ fs' = RemoveDirAll(fs)
       ELSE /\ cli' = [cli EXCEPT ![p].polls = @ + 1]
            /\ ret' = NoRet
            /\ UNCHANGED fs
    /\ UNCHANGED <<child, daemon, nsess, cmds>>

\* cmd_stop: kill(Pid::from_raw(state.pid), Signal::SIGKILL)?; remove_dir_all
StopKill(p) ==
    /\ cli[p].pc = "stop_poll"
    /\ cli[p].polls = StopCeiling
    /\ IF Live(cli[p].pid)
       THEN /\ child' = [child EXCEPT ![cli[p].pid] = "dead"]
            /\ Returns(p, "stop", "ForceKilled", TRUE)
            /\ fs' = RemoveDirAll(fs)
       ELSE /\ Returns(p, "stop", "KillError", TRUE)
            /\ UNCHANGED <<fs, child>>
    /\ UNCHANGED <<daemon, nsess, cmds>>

\* The console program exits (on its own, or because it was told to stop).
ChildExit(g) ==
    /\ child[g] = "alive"
    /\ child' = [child EXCEPT ![g] = "dead"]
    /\ ret' = NoRet
    /\ UNCHANGED <<fs, daemon, nsess, cli, cmds>>

\* spawn_pty_daemon, in the daemon, up to the main loop: the transcript is
\* opened (OpenOptions::new().create(true).append(true)) and the endpoint bound
\* (UnixListener::bind(socket_path).expect("Failed to bind socket")).
DaemonInit(g) ==
    /\ daemon[g] = "init"
    /\ IF fs.dir /\ fs.sock = 0
       THEN /\ fs' = [fs EXCEPT !.sock = g, !.log = TRUE]
            /\ daemon' = [daemon EXCEPT ![g] = "serving"]
       ELSE /\ fs' = IF fs.dir THEN [fs EXCEPT !.log = TRUE] ELSE fs
            /\ daemon' = [daemon EXCEPT ![g] = "gone"]
    /\ ret' = NoRet
    /\ UNCHANGED <<child, nsess, cli, cmds>>

\* The main loop ends once the child is gone; libc::close(master_fd);
\* fs::remove_file(socket_path); exit
DaemonShutdown(g) ==
    /\ daemon[g] = "serving"
    /\ child[g] = "dead"
    /\ daemon' = [daemon EXCEPT ![g] = "gone"]
    /\ fs' = [fs EXCEPT !.sock = 0]
    /\ ret' = NoRet
    /\ UNCHANGED <<child, nsess, cli, cmds>>

LifeIdle ==
    /\ fs = NoStorage
    /\ child = [g \in Sess |-> "none"]
    /\ daemon = [g \in Sess |-> "none"]
    /\ nsess = 0
    /\ cli = [p \in Cli |-> Idle]
    /\ ret = NoRet
    /\ cmds = 0

LifeInit == LifeIdle

LifeNext ==
    \/ \E p \in Cli : StartCheck(p)
    \/ \E p \in Cli : StartSpawn(p)
    \/ \E p \in Cli : StartWriteOpen(p)
    \/ \E p \in Cli : StartWriteDone(p)
    \/ \E p \in Cli : Status(p)
    \/ \E p \in Cli : Send(p)
    \/ \E p \in Cli : Attach(p)
    \/ \E p \in Cli : StopCheck(p)
    \/ \E p \in Cli : StopSend(p)
    \/ \E p \in Cli : StopPoll(p)
    \/ \E p \in Cli : StopKill(p)
    \/ \E g \in Sess : ChildExit(g)
    \/ \E g \in Sess : DaemonInit(g)
    \/ \E g \in Sess : DaemonShutdown(g)

(***************************************************************************)
(* The daemon: accept thread, forwarding thread, main loop (pty.rs)        *)
(***************************************************************************)
\* Connections made to the endpoint in one behaviour, bytes the child writes
\* to the terminal, and steps the clients and the child take in all.
MaxConn == 2
MaxOut == 3
\* How much the terminal holds in each direction before a write on the
\* blocking master, or on the slave, has to wait: lines of input the child has
\* not read, bytes of output the main loop has not read.
InCap == 1
OutCap == 1
MaxEnv == 6

Conn == 1..MaxConn

\* A connection: st is the daemon's end ("free": never connected, "backlog":
\* connected and waiting in the listener's queue, "held": a UnixStream the
\* daemon owns, "dropped": the daemon dropped the stream); peer is the client's
\* end; inb counts the lines the client has written that the daemon has not
\* read; wrote says the client has written its line.
NoConn == [st |-> "free", peer |-> "open", inb |-> 0, wrote |-> FALSE]

\* A connection whose stream the daemon has dropped is over: what was unread
\* in it is discarded and the client is left with a closed socket.
Gone == [st |-> "dropped", peer |-> "closed", inb |-> 0, wrote |-> TRUE]

Range(f) == {f[k] : k \in DOMAIN f}

\* Vec::remove(i), with the 0-based index i as the 1-based k
RemoveAt(cl, k) ==
    IF k >= 1 /\ k <= Len(cl)
    THEN Slice(cl, 1, k - 1) \o Slice(cl, k + 1, Len(cl))
    ELSE cl

\* for i in to_remove.into_iter() { clients.remove(i); }
RECURSIVE RemoveForward(_, _)
RemoveForward(cl, tr) ==
    IF tr = <<>> THEN cl ELSE RemoveForward(RemoveAt(cl, Head(tr)), Tail(tr))

\* for i in to_remove.into_iter().rev() { clients.remove(i); }
RECURSIVE RemoveReversed(_, _)
RemoveReversed(cl, tr) ==
    IF tr = <<>> THEN cl
    ELSE RemoveReversed(RemoveAt(cl, tr[Len(tr)]), Slice(tr, 1, Len(tr) - 1))

\* The connection records once clients has become cl: a stream that left the
\* Vec is dropped, which closes the daemon's end.
Dropping(cl, cn) ==
    [c \in Conn |-> IF c \in Range(clients) /\ c \notin Range(cl) THEN Gone ELSE cn[c]]

\* std::process::exit(0) ends the daemon and its threads
DaemonUp == mpc # "exited"

ptyVars == <<dchild, ptyOut, nprod, ptyIn, inq, cblocked>>

mainVars == <<mpc, mdata, mi, main_to_remove, sent>>

endVars == <<running, master_open, sock_file>>

\* ---- the environment: clients and the child
\* UnixStream::connect(&paths.socket_path) by attach_pty or cmd_send
ClientConnect(c) ==
    /\ DaemonUp /\ sock_file
    /\ nenv < MaxEnv
    /\ conn[c].st = "free"
    /\ \A b \in Conn : b < c => conn[b].st # "free"
    /\ conn' = [conn EXCEPT ![c].st = "backlog"]
    /\ nenv' = nenv + 1
    /\ UNCHANGED <<clients, lock, ptyVars, mainVars, wpc, apc, endVars>>

\* stream.write_all(command), stream.write_all(b"\n") of cmd_send, or the
\* writer.write_all of attach_pty: a line of input from client c
ClientWrite(c) ==
    /\ DaemonUp
    /\ nenv < MaxEnv
    /\ conn[c].st \in {"backlog", "held"}
    /\ conn[c].peer = "open"
    /\ ~conn[c].wrote
    /\ conn' = [conn EXCEPT ![c].inb = 1, ![c].wrote = TRUE]
    /\ nenv' = nenv + 1
    /\ UNCHANGED <<clients, lock, ptyVars, mainVars, wpc, apc, endVars>>

\* cmd_send returns and drops its stream; attach_pty detaches
ClientClose(c) ==
    /\ DaemonUp
    /\ nenv < MaxEnv
    /\ conn[c].st \in {"backlog", "held"}
    /\ conn[c].peer = "open"
    /\ conn' = [conn EXCEPT ![c].peer = "closed"]
    /\ nenv' = nenv + 1
    /\ UNCHANGED <<clients, lock, ptyVars, mainVars, wpc, apc, endVars>>

\* the console program prints a byte: its write on the slave returns when
\* the terminal has room for it
ChildWrite ==
    /\ DaemonUp
    /\ nenv < MaxEnv
    /\ dchild = "alive"
    /\ nprod < MaxOut
    /\ Len(ptyOut) < OutCap
    /\ nprod' = nprod + 1
    /\ ptyOut' = Append(ptyOut, nprod + 1)
    /\ cblocked' = FALSE
    /\ nenv' = nenv + 1
    /\ UNCHANGED <<clients, lock, conn, dchild, ptyIn, inq, mainVars, wpc, apc, endVars>>

\* the console program calls write while the terminal's output queue is full:
\* it waits in the call until the master has been read
ChildBlocks ==
    /\ DaemonUp
    /\ dchild = "alive"
    /\ nprod < MaxOut
    /\ Len(ptyOut) = OutCap
    /\ ~cblocked
    /\ cblocked' = TRUE
    /\ UNCHANGED <<clients, lock, conn, dchild, ptyOut, nprod, ptyIn, inq, mainVars, wpc,
                   apc, endVars, nenv>>

\* the console program reads its input, unless it is waiting in a write
ChildReads ==
    /\ DaemonUp
    /\ dchild = "alive"
    /\ ~cblocked
    /\ inq > 0
    /\ inq' = 0
    /\ UNCHANGED <<clients, lock, conn, dchild, ptyOut, nprod, ptyIn, cblocked, mainVars,
                   wpc, apc, endVars, nenv>>

\* the console program exits; its slave descriptors close
ChildDies ==
    /\ DaemonUp
    /\ nenv < MaxEnv
    /\ dchild = "alive"
    /\ dchild' = "dead"
    /\ inq' = 0
    /\ cblocked' = FALSE
    /\ nenv' = nenv + 1
    /\ UNCHANGED <<clients, lock, conn, ptyOut, nprod, ptyIn, mainVars, wpc, apc,
                   endVars>>

\* ---- accept thread (165-181)
\* listener.accept() returns a stream; stream.set_nonblocking(true);
\* clients_clone.lock().unwrap().push(stream)
AcceptUnlocked(c) ==
    /\ DaemonUp /\ apc = "accept" /\ running
    /\ conn[c].st = "backlog"
    /\ \A b \in Conn : b < c => conn[b].st # "backlog"
    /\ conn' = [conn EXCEPT ![c].st = "held"]
    /\ clients' = Append(clients, c)
    /\ UNCHANGED <<lock, ptyVars, mainVars, wpc, apc, endVars, nenv>>

Accept(c) ==
    /\ DaemonUp /\ apc = "accept" /\ running
    /\ conn[c].st = "backlog"
    /\ \A b \in Conn : b < c => conn[b].st # "backlog"
    /\ lock = "free"
    /\ conn' = [conn EXCEPT ![c].st = "held"]
    /\ clients' = Append(clients, c)
    /\ UNCHANGED <<lock, ptyVars, mainVars, wpc, apc, endVars, nenv>>

\* while running_clone.load(..) ends the thread
AcceptStops ==
    /\ DaemonUp /\ apc = "accept" /\ ~running
    /\ apc' = "stopped"
    /\ UNCHANGED <<clients, lock, conn, ptyVars, mainVars, wpc, endVars, nenv>>

\* ---- forwarding thread (183-216)
\* while running_clone.load(..) { let mut clients = clients_clone.lock().unwrap();
FwdLock ==
    /\ DaemonUp /\ wpc = "check"
    /\ IF running
       THEN /\ lock = "free"
            /\ lock' = "fwd"
            /\ wpc' = "scan"
       ELSE /\ wpc' = "stopped"
            /\ UNCHANGED lock
    /\ UNCHANGED <<clients, conn, ptyVars, mainVars, apc, endVars, nenv>>

\* match client.read(&mut buf) for the client at index k:
\* Ok(n) with n > 0 when there is input, Ok(0) when the peer has closed,
\* Err(WouldBlock) otherwise
ReadsInput(k) == conn[clients[k]].inb > 0

ReadsEof(k) == conn[clients[k]].inb = 0 /\ conn[clients[k]].peer = "closed"

\* Ok(n) => libc::write(master_fd, buf, n), for each client in order
RECURSIVE Forwarded(_)
Forwarded(k) ==
    IF k > Len(clients) THEN <<>>
    ELSE (IF ReadsInput(k) THEN <<clients[k]>> ELSE <<>>) \o Forwarded(k + 1)

\* Ok(0) | Err(_) => to_remove.push(i)
RECURSIVE ScanToRemove(_)
ScanToRemove(k) ==
    IF k > Len(clients) THEN <<>>
    ELSE (IF ReadsEof(k) THEN <<k>> ELSE <<>>) \o ScanToRemove(k + 1)

\* libc::write(master_fd, ..) on the blocking master waits while the terminal
\* has no room for the input; once the slave side is closed it fails at once
FwdBlocked == dchild = "alive" /\ inq + Len(Forwarded(1)) > InCap

\* the pass over clients under the guard, then
\* for i in to_remove.into_iter().rev() { clients.remove(i); }; the guard is
\* released; thread::sleep
FwdPass ==
    /\ DaemonUp /\ wpc = "scan"
    /\ ~FwdBlocked
    /\ ptyIn' = ptyIn \o Forwarded(1)
    /\ inq' = IF dchild = "alive" THEN inq + Len(Forwarded(1)) ELSE inq
    /\ LET cl == RemoveReversed(clients, ScanToRemove(1))
           rd == [c \in Conn |-> IF c \in Range(clients)
                                 THEN [conn[c] EXCEPT !.inb = 0]
                                 ELSE conn[c]]
       IN  /\ clients' = cl
           /\ conn' = Dropping(cl, rd)
    /\ lock' = "free"
    /\ wpc' = "check"
    /\ UNCHANGED <<dchild, ptyOut, nprod, cblocked, mainVars, apc, endVars, nenv>>

\* ---- main loop (218-276)
\* waitpid(child_pid, WNOHANG): the child was forked by the invoking process,
\* not by the daemon, so the call fails with ECHILD and the arm `_ => {}` runs.
\* Then libc::read(master_fd, ..) on the blocking master returns n > 0 with the
\* bytes there are; filter_for_log and log.write_all follow.
MainRead ==
    /\ mpc = "read"
    /\ ptyOut # <<>>
    /\ mdata' = ptyOut
    /\ ptyOut' = <<>>
    /\ mpc' = "lock"
    /\ UNCHANGED <<clients, lock, conn, dchild, nprod, ptyIn, inq, cblocked, mi,
                   main_to_remove, sent, wpc, apc, endVars, nenv>>

\* A main loop that takes the end of the terminal for WouldBlock: it sleeps
\* and reads again.
MainReadEndRetries ==
    /\ mpc = "read"
    /\ ptyOut = <<>> /\ dchild = "dead"
    /\ UNCHANGED dmnVars

\* the read returns 0 or fails with EIO once the slave side is closed:
\* running.store(false); break
MainReadEnd ==
    /\ mpc = "read"
    /\ ptyOut = <<>> /\ dchild = "dead"
    /\ running' = FALSE
    /\ mpc' = "cleanup"
    /\ UNCHANGED <<clients, lock, conn, ptyVars, mdata, mi, main_to_remove, sent, wpc,
                   apc, master_open, sock_file, nenv>>

\* let mut clients = clients.lock().unwrap(); let mut to_remove = Vec::new();
MainLock ==
    /\ mpc = "lock"
    /\ lock = "free"
    /\ lock' = "main"
    /\ mi' = 1
    /\ main_to_remove' = <<>>
    /\ sent' = <<>>
    /\ mpc' = "bcast"
    /\ UNCHANGED <<clients, conn, ptyVars, mdata, wpc, apc, endVars, nenv>>

\* client.write_all(data) on the non-blocking stream gets k bytes through:
\* all of them, or fewer because the peer is gone (EPIPE, none) or because the
\* socket buffer filled up (WouldBlock), and then it returns an error.
WriteAllOutcomes(c) ==
    IF conn[c].peer = "closed" THEN {0} ELSE 0..Len(mdata)

\* if client.write_all(data).is_err() { to_remove.push(i); }
MainWrite ==
    /\ mpc = "bcast" /\ mi <= Len(clients)
    /\ \E k \in WriteAllOutcomes(clients[mi]) :
          /\ sent' = Append(sent, Slice(mdata, 1, k))
          /\ main_to_remove' = IF k < Len(mdata)
                               THEN Append(main_to_remove, mi)
                               ELSE main_to_remove
    /\ mi' = mi + 1
    /\ UNCHANGED <<clients, lock, conn, ptyVars, mpc, mdata, wpc, apc, endVars, nenv>>

\* for i in to_remove.into_iter().rev() { clients.remove(i); }; the guard is
\* released at the end of the block and the loop goes on
MainRemove ==
    /\ mpc = "bcast" /\ mi > Len(clients)
    /\ LET cl == RemoveReversed(clients, main_to_remove)
       IN  /\ clients' = cl
           /\ conn' = Dropping(cl, conn)
    /\ lock' = "free"
    /\ mpc' = "read"
    /\ UNCHANGED <<ptyVars, mdata, mi, main_to_remove, sent, wpc, apc, endVars, nenv>>

\* libc::close(master_fd); fs::remove_file(socket_path); std::process::exit(0)
MainCleanup ==
    /\ mpc = "cleanup"
    /\ master_open' = FALSE
    /\ sock_file' = FALSE
    /\ mpc' = "exited"
    /\ UNCHANGED <<clients, lock, conn, ptyVars, mdata, mi, main_to_remove, sent, wpc,
                   apc, running, nenv>>

\* The daemon as it enters its main loop: the endpoint bound, no client yet.
DaemonInitState ==
    /\ clients = <<>>
    /\ lock = "free"
    /\ conn = [c \in Conn |-> NoConn]
    /\ running = TRUE
    /\ dchild = "alive"
    /\ ptyOut = <<>>
    /\ nprod = 0
    /\ ptyIn = <<>>
    /\ inq = 0
    /\ cblocked = FALSE
    /\ mpc = "read"
    /\ mdata = <<>>
    /\ mi = 1
    /\ main_to_remove = <<>>
    /\ sent = <<>>
    /\ wpc = "check"
    /\ apc = "accept"
    /\ master_open = TRUE
    /\ sock_file = TRUE
    /\ nenv = 0

MainThread ==
    MainRead \/ MainReadEnd \/ MainLock \/ MainWrite \/ MainRemove \/ MainCleanup

DaemonNext ==
    \/ \E c \in Conn : ClientConnect(c)
    \/ \E c \in Conn : ClientWrite(c)
    \/ \E c \in Conn : ClientClose(c)
    \/ ChildWrite
    \/ ChildBlocks
    \/ ChildReads
    \/ ChildDies
    \/ \E c \in Conn : Accept(c)
    \/ AcceptStops
    \/ FwdLock
    \/ FwdPass
    \/ MainRead
    \/ MainReadEnd
    \/ MainLock
    \/ MainWrite
    \/ MainRemove
    \/ MainCleanup

(***************************************************************************)
(* One start in terminal mode, process by process (pty.rs 27-157)          *)
(***************************************************************************)

\* inv: the process that runs mcwrap start; chd: its fork that becomes the
\* console program; mid: the first fork of spawn_pty_daemon; dmn: the fork of
\* mid that serves the terminal.
Proc == {"inv", "chd", "mid", "dmn"}

Pid == [inv |-> 1, chd |-> 2, mid |-> 3, dmn |-> 4]

daemon_pid == Pid["dmn"]

\* child of ForkResult::Parent { child }, returned as child_pid
child_pid == Pid["chd"]

\* fork: the new process has every descriptor its parent has
Inherit(fd, parent, new) == IF parent \in fd THEN fd \union {new} ELSE fd

\* openpty
OpenPty ==
    /\ spawn["inv"] = "openpty"
    /\ \/ /\ spawn' = [spawn EXCEPT !["inv"] = "fork"]
          /\ master_fd' = {"inv"}
          /\ slave_fd' = {"inv"}
       \/ /\ spawn' = [spawn EXCEPT !["inv"] = "failed"]
          /\ UNCHANGED <<master_fd, slave_fd>>
    /\ UNCHANGED <<state_file, closed>>

\* fork of the child; on failure the error is returned and both ends dropped
ForkChild ==
    /\ spawn["inv"] = "fork"
    /\ \/ /\ spawn' = [spawn EXCEPT !["inv"] = "drop_slave", !["chd"] = "drop_master"]
          /\ master_fd' = Inherit(master_fd, "inv", "chd")
          /\ slave_fd' = Inherit(slave_fd, "inv", "chd")
       \/ /\ spawn' = [spawn EXCEPT !["inv"] = "failed"]
          /\ master_fd' = master_fd \ {"inv"}
          /\ slave_fd' = slave_fd \ {"inv"}
    /\ UNCHANGED <<state_file, closed>>

\* drop(slave_fd); into_raw_fd; remove_file(socket_path)
DropSlave ==
    /\ spawn["inv"] = "drop_slave"
    /\ spawn' = [spawn EXCEPT !["inv"] = "fork_daemon"]
    /\ slave_fd' = slave_fd \ {"inv"}
    /\ UNCHANGED <<master_fd, state_file, closed>>

\* first fork of spawn_pty_daemon; on failure start fails and the process ends
ForkDaemon ==
    /\ spawn["inv"] = "fork_daemon"
    /\ \/ /\ spawn' = [spawn EXCEPT !["inv"] = "close_master", !["mid"] = "setsid"]
          /\ master_fd' = Inherit(master_fd, "inv", "mid")
          /\ slave_fd' = Inherit(slave_fd, "inv", "mid")
       \/ /\ spawn' = [spawn EXCEPT !["inv"] = "failed"]
          /\ master_fd' = master_fd \ {"inv"}
          /\ UNCHANGED slave_fd
    /\ UNCHANGED <<state_file, closed>>

\* libc::close(master_fd); return Ok(())
CloseMaster ==
    /\ spawn["inv"] = "close_master"
    /\ spawn' = [spawn EXCEPT !["inv"] = "write"]
    /\ master_fd' = master_fd \ {"inv"}
    /\ UNCHANGED <<slave_fd, state_file, closed>>

ReturnsUnwritten ==
    /\ spawn["inv"] = "write"
    /\ spawn' = [spawn EXCEPT !["inv"] = "returned"]
    /\ UNCHANGED <<master_fd, slave_fd, state_file, closed>>

\* fs::write(state_file, ServerState { pid: pty_result.child_pid, .. }); Ok(())
WriteRecord ==
    /\ spawn["inv"] = "write"
    /\ spawn' = [spawn EXCEPT !["inv"] = "returned"]
    /\ state_file' = child_pid
    /\ UNCHANGED <<master_fd, slave_fd, closed>>

Invoker == OpenPty \/ ForkChild \/ DropSlave \/ ForkDaemon \/ CloseMaster \/ WriteRecord

ChildKeepsMaster ==
    /\ spawn["chd"] = "drop_master"
    /\ spawn' = [spawn EXCEPT !["chd"] = "exec"]
    /\ UNCHANGED <<master_fd, slave_fd, state_file, closed>>

\* drop(master_fd)
ChildDropMaster ==
    /\ spawn["chd"] = "drop_master"
    /\ spawn' = [spawn EXCEPT !["chd"] = "exec"]
    /\ master_fd' = master_fd \ {"chd"}
    /\ UNCHANGED <<slave_fd, state_file, closed>>

\* setsid, TIOCSCTTY, dup2 of the slave onto 0, 1 and 2, execvp: the program
\* runs with the slave as its standard streams
ChildExec ==
    /\ spawn["chd"] = "exec"
    /\ spawn' = [spawn EXCEPT !["chd"] = "java"]
    /\ UNCHANGED <<master_fd, slave_fd, state_file, closed>>

\* the program exits (or execvp failed): its descriptors are closed
ChildExits ==
    /\ spawn["chd"] = "java"
    /\ spawn' = [spawn EXCEPT !["chd"] = "exited"]
    /\ slave_fd' = slave_fd \ {"chd"}
    /\ UNCHANGED <<master_fd, state_file, closed>>

\* setsid and the second fork; exit(1) when the fork fails
MidForks ==
    /\ spawn["mid"] = "setsid"
    /\ \/ /\ spawn' = [spawn EXCEPT !["mid"] = "exit", !["dmn"] = "init"]
          /\ master_fd' = Inherit(master_fd, "mid", "dmn")
          /\ slave_fd' = Inherit(slave_fd, "mid", "dmn")
       \/ /\ spawn' = [spawn EXCEPT !["mid"] = "exited"]
          /\ master_fd' = master_fd \ {"mid"}
          /\ slave_fd' = slave_fd \ {"mid"}
    /\ UNCHANGED <<state_file, closed>>

\* std::process::exit(0) of the second fork's parent
MidExits ==
    /\ spawn["mid"] = "exit"
    /\ spawn' = [spawn EXCEPT !["mid"] = "exited"]
    /\ master_fd' = master_fd \ {"mid"}
    /\ slave_fd' = slave_fd \ {"mid"}
    /\ UNCHANGED <<state_file, closed>>

\* SIGHUP ignored, log opened, UnixListener::bind(..).expect(..): the daemon
\* serves, or panics when the bind fails
DaemonSetup ==
    /\ spawn["dmn"] = "init"
    /\ \/ /\ spawn' = [spawn EXCEPT !["dmn"] = "serving"]
          /\ UNCHANGED master_fd
       \/ /\ spawn' = [spawn EXCEPT !["dmn"] = "panicked"]
          /\ master_fd' = master_fd \ {"dmn"}
    /\ UNCHANGED <<slave_fd, state_file, closed>>

\* the main loop ends when no process holds the slave any more (read returns 0
\* or EIO); running cleared, libc::close(master_fd), remove_file, exit
DaemonEnds ==
    /\ spawn["dmn"] = "serving"
    /\ slave_fd = {}
    /\ spawn' = [spawn EXCEPT !["dmn"] = "exited"]
    /\ master_fd' = master_fd \ {"dmn"}
    /\ closed' = closed + 1
    /\ UNCHANGED <<slave_fd, state_file>>

SpawnIdle ==
    /\ spawn = [p \in Proc |-> IF p = "inv" THEN "openpty" ELSE "none"]
    /\ master_fd = {}
    /\ slave_fd = {}
    /\ state_file = 0
    /\ closed = 0

SpawnNext ==
    \/ OpenPty
    \/ ForkChild
    \/ DropSlave
    \/ ForkDaemon
    \/ CloseMaster
    \/ WriteRecord
    \/ ChildDropMaster
    \/ ChildExec
    \/ ChildExits
    \/ MidForks
    \/ MidExits
    \/ DaemonSetup
    \/ DaemonEnds

(***************************************************************************)
(* One attached client (main.rs 359-457)                                   *)
(***************************************************************************)

AttachIdle ==
    /\ a_running = TRUE
    /\ sigint = "none"
    /\ out_pc = "check"
    /\ in_pc = "check"
    /\ att_pc = "select"
    /\ termios = "raw"
    /\ from_daemon = 0
    /\ keys = 0
    /\ a_stream = "open"

attEnv == <<from_daemon, keys, a_stream>>

\* ---- the environment: the daemon, the user and the sender of SIGINT
DaemonSends ==
    /\ a_stream = "open" /\ from_daemon < MaxOut
    /\ from_daemon' = from_daemon + 1
    /\ UNCHANGED <<a_running, sigint, out_pc, in_pc, att_pc, termios, keys, a_stream>>

DaemonCloses ==
    /\ a_stream = "open"
    /\ a_stream' = "eof"
    /\ UNCHANGED <<a_running, sigint, out_pc, in_pc, att_pc, termios, from_daemon, keys>>

UserTypes ==
    /\ att_pc # "exited" /\ keys < MaxOut
    /\ keys' = keys + 1
    /\ UNCHANGED <<a_running, sigint, out_pc, in_pc, att_pc, termios, from_daemon, a_stream>>

Interrupt ==
    /\ att_pc # "exited" /\ sigint = "none"
    /\ sigint' = "pending"
    /\ UNCHANGED <<a_running, out_pc, in_pc, att_pc, termios, attEnv>>

\* A signal task that receives the signal and leaves the flag as it is.
SigintTaskKeepsFlag ==
    /\ sigint = "pending"
    /\ sigint' = "taken"
    /\ UNCHANGED <<a_running, out_pc, in_pc, att_pc, termios, attEnv>>

\* sigint.recv().await; r2.store(false, Ordering::SeqCst);
SigintTask ==
    /\ sigint = "pending"
    /\ sigint' = "taken"
    /\ a_running' = FALSE
    /\ UNCHANGED <<out_pc, in_pc, att_pc, termios, attEnv>>

\* while r3.load(Ordering::SeqCst)
OutCheck ==
    /\ out_pc = "check"
    /\ out_pc' = IF a_running THEN "read" ELSE "done"
    /\ UNCHANGED <<a_running, sigint, in_pc, att_pc, termios, attEnv>>

\* timeout(100 ms, reader.read(&mut buf)): Ok(Ok(n)) with the bytes there are,
\* Ok(Ok(0)) => break at the end of the stream, Err(_) => continue on timeout
OutRead ==
    /\ out_pc = "read"
    /\ out_pc' = IF from_daemon > 0 THEN "write"
                 ELSE IF a_stream = "open" THEN "check" ELSE "done"
    /\ from_daemon' = 0
    /\ UNCHANGED <<a_running, sigint, in_pc, att_pc, termios, keys, a_stream>>

\* stdout.write_all(&buf[..n]); stdout.flush()
OutWrite ==
    /\ out_pc = "write"
    /\ out_pc' = "check"
    /\ UNCHANGED <<a_running, sigint, in_pc, att_pc, termios, attEnv>>

OutTask == OutCheck \/ OutRead \/ OutWrite

\* while r.load(Ordering::SeqCst)
InCheck ==
    /\ in_pc = "check"
    /\ in_pc' = IF a_running THEN "read" ELSE "done"
    /\ UNCHANGED <<a_running, sigint, out_pc, att_pc, termios, attEnv>>

\* timeout(100 ms, stdin.read(&mut buf)): the keys typed, or Err(_) => continue
InRead ==
    /\ in_pc = "read"
    /\ in_pc' = IF keys > 0 THEN "write" ELSE "check"
    /\ keys' = 0
    /\ UNCHANGED <<a_running, sigint, out_pc, att_pc, termios, from_daemon, a_stream>>

\* writer.write_all(&buf[..n]); writer.flush()
InWrite ==
    /\ in_pc = "write"
    /\ in_pc' = "check"
    /\ UNCHANGED <<a_running, sigint, out_pc, att_pc, termios, attEnv>>

InTask == InCheck \/ InRead \/ InWrite

\* tokio::select! { _ = stdout_handle => {}, _ = stdin_handle => {} }
Select ==
    /\ att_pc = "select"
    /\ out_pc = "done" \/ in_pc = "done"
    /\ att_pc' = "restore"
    /\ UNCHANGED <<a_running, sigint, out_pc, in_pc, termios, attEnv>>

\* tcsetattr(stdin, TCSANOW, &orig); println!("Detached."); Ok(())
Restore ==
    /\ att_pc = "restore"
    /\ termios' = "orig"
    /\ att_pc' = "returned"
    /\ UNCHANGED <<a_running, sigint, out_pc, in_pc, attEnv>>

\* main returns: the runtime is dropped, the tasks with it, and the process
\* exits, which closes the connection
RuntimeShutdown ==
    /\ att_pc = "returned"
    /\ att_pc' = "exited"
    /\ out_pc' = "done"
    /\ in_pc' = "done"
    /\ a_stream' = "dropped"
    /\ UNCHANGED <<a_running, sigint, termios, from_daemon, keys>>

AttachThread == Select \/ Restore \/ RuntimeShutdown

AttachNext ==
    \/ DaemonSends
    \/ DaemonCloses
    \/ UserTypes
    \/ Interrupt
    \/ SigintTask
    \/ OutCheck
    \/ OutRead
    \/ OutWrite
    \/ InCheck
    \/ InRead
    \/ InWrite
    \/ Select
    \/ Restore
    \/ RuntimeShutdown

(***************************************************************************)
(* Specifications                                                          *)
(***************************************************************************)
\* One read returns everything the terminal has produced.
ReadAll == ReadChunk(Len(stream))

FilterNext ==
    \/ ReadAll
    \/ FilterPrompt
    \/ FilterCSI
    \/ FilterCR
    \/ FilterLF
    \/ FilterByte
    \/ FilterReturn
    \/ LogWrite

\* A read returns some of what the terminal has produced.
ReadSome == \E n \in 1..MaxLen : ReadChunk(n)

StreamNext ==
    \/ ReadSome
    \/ FilterPrompt
    \/ FilterCSI
    \/ FilterCR
    \/ FilterLF
    \/ FilterByte
    \/ FilterReturn
    \/ LogWrite

InitFilter == FilterInit /\ LifeIdle /\ DaemonInitState /\ SpawnIdle /\ AttachIdle

StreamStep == StreamNext /\ UNCHANGED <<lifeVars, dmnVars, spawnVars, attVars>>

SpecStream == InitFilter /\ [][StreamStep]_vars

FilterStep == FilterNext /\ UNCHANGED <<lifeVars, dmnVars, spawnVars, attVars>>

SpecFilter == InitFilter /\ [][FilterStep]_vars

Init == LifeInit /\ FilterIdle /\ DaemonInitState /\ SpawnIdle /\ AttachIdle

Next == LifeNext /\ UNCHANGED <<filtVars, dmnVars, spawnVars, attVars>>

Spec == Init /\ [][Next]_vars

DaemonStep == DaemonNext /\ UNCHANGED <<filtVars, lifeVars, spawnVars, attVars>>

InitDaemon == DaemonInitState /\ FilterIdle /\ LifeIdle /\ SpawnIdle /\ AttachIdle

SpecDaemon == InitDaemon /\ [][DaemonStep]_vars

\* The operating system keeps scheduling the main loop and lets a forwarding
\* pass that holds the mutex finish. The forwarding thread sleeps 10 ms and the
\* accept thread 50 ms with the mutex released, so a main loop that waits for
\* the mutex gets it.
FairSpecDaemon ==
    /\ SpecDaemon
    /\ WF_vars(MainThread /\ UNCHANGED <<filtVars, lifeVars, spawnVars, attVars>>)
    /\ SF_vars(MainLock /\ UNCHANGED <<filtVars, lifeVars, spawnVars, attVars>>)
    /\ WF_vars(FwdPass /\ UNCHANGED <<filtVars, lifeVars, spawnVars, attVars>>)

StartStep == SpawnNext /\ UNCHANGED <<filtVars, lifeVars, dmnVars, attVars>>

InitStart == SpawnIdle /\ FilterIdle /\ LifeIdle /\ DaemonInitState /\ AttachIdle

SpecStart == InitStart /\ [][StartStep]_vars

AttachStep == AttachNext /\ UNCHANGED <<filtVars, lifeVars, dmnVars, spawnVars>>

InitAttach == AttachIdle /\ FilterIdle /\ LifeIdle /\ DaemonInitState /\ SpawnIdle

SpecAttach == InitAttach /\ [][AttachStep]_vars

\* The runtime runs every task that is ready, and each read of a task is
\* bounded by its 100 ms timeout.
FairSpecAttach ==
    /\ SpecAttach
    /\ WF_vars(SigintTask /\ UNCHANGED <<filtVars, lifeVars, dmnVars, spawnVars>>)
    /\ WF_vars(OutTask /\ UNCHANGED <<filtVars, lifeVars, dmnVars, spawnVars>>)
    /\ WF_vars(InTask /\ UNCHANGED <<filtVars, lifeVars, dmnVars, spawnVars>>)
    /\ WF_vars(AttachThread /\ UNCHANGED <<filtVars, lifeVars, dmnVars, spawnVars>>)

(***************************************************************************)
(* Claims                                                                  *)
(***************************************************************************)
\* The record on disk parses and its process is live / is dead.
LiveRecord == fs.state = "full" /\ child[fs.pid] = "alive"
StaleRecord == fs.state = "full" /\ child[fs.pid] # "alive"

\* C1: a start request issued while a record exists whose process is live
\* returns the already-running error and changes nothing: not the storage
\* (record, transcript, endpoint), not a child, not a daemon, and no process
\* is forked.
C1_StartRefusedWhenLive ==
    [][\A p \in Cli : (StartCheck(p) /\ LiveRecord) =>
          /\ ret' = [cmd |-> "start", res |-> "AlreadyRunning", sigkill |-> FALSE]
          /\ UNCHANGED <<fs, child, daemon, nsess, cli>>]_vars

C1_Witness ==
    ret.cmd = "start" /\ ret.res = "AlreadyRunning" /\ LiveRecord /\ fs.sock = fs.pid

\* C2: a start request issued while a record exists whose process is dead is
\* not refused, and the step that finds the stale record leaves none of the
\* prior storage (no record, no transcript, no endpoint file) while no child
\* has been spawned and no record written yet: the spawn and the write are
\* later steps of that invocation.
C2_StaleStorageRemovedFirst ==
    [][\A p \in Cli : (StartCheck(p) /\ StaleRecord) =>
          /\ cli'[p].cmd = "start" /\ cli'[p].pc = "start_spawn" /\ cli'[p].stale
          /\ ret' = NoRet
          /\ fs'.state = "none" /\ ~fs'.log /\ fs'.sock = 0
          /\ UNCHANGED <<child, daemon, nsess>>]_vars

\* a start that found a stale record has spawned the new child and is writing
\* the new record
C2_Witness ==
    \E p \in Cli : /\ cli[p].stale /\ cli[p].pc = "start_write2"
                    /\ child[cli[p].pid] = "alive" /\ fs.state = "partial"

\* C4: when the polling loop of stop finds the process dead before the
\* ceiling, stop returns graceful success, the record is removed and no
\* SIGKILL is sent (no process changes state); with the record gone, a status
\* query reports the session absent and a start request is accepted.
C4_GracefulStop ==
    [][\A p \in Cli :
          /\ (StopPoll(p) /\ child[cli[p].pid] # "alive") =>
                /\ ret' = [cmd |-> "stop", res |-> "Stopped", sigkill |-> FALSE]
                /\ fs'.state = "none"
                /\ UNCHANGED <<child, daemon>>
          /\ (Status(p) /\ fs.state = "none") => ret'.res = "NotRunning"
          /\ (StartCheck(p) /\ fs.state = "none") =>
                (cli'[p].pc = "start_spawn" /\ ret' = NoRet)]_vars

C4_Witness == ret.cmd = "stop" /\ ret.res = "Stopped" /\ fs.state = "none"

\* C5: whenever the polling ceiling of stop elapses, SIGKILL is issued and
\* the record is gone when stop returns, whatever the outcome of the signal.
C5_RecordRemovedAfterCeiling ==
    [][\A p \in Cli : StopKill(p) => (ret'.sigkill /\ fs'.state = "none")]_vars

(***************************************************************************)
(* Claims about filter_for_log                                             *)
(***************************************************************************)
RemoveCR(s) == SelectSeq(s, LAMBDA c : c # CR)

RECURSIVE CollapseLF(_)
CollapseLF(s) ==
    IF Len(s) <= 1 THEN s
    ELSE IF s[1] = LF /\ s[2] = LF THEN CollapseLF(Tail(s))
    ELSE <<s[1]>> \o CollapseLF(Tail(s))

\* no escape sequence (ESC [) and no prompt marker (> followed by a space)
PlainChunk(d) ==
    \A k \in 1..Len(d) :
        /\ ~(d[k] = ESC /\ k < Len(d) /\ d[k + 1] = LBRACKET)
        /\ ~(d[k] = GT /\ k < Len(d) /\ d[k + 1] = SPACE)

\* C9: for a chunk with no escape sequence and no prompt marker, what is
\* appended to the transcript is the chunk with every carriage return removed
\* and each run of newlines collapsed to one (a leading newline is kept).
C9_PlainChunkNormalized ==
    (fpc = "ret" /\ PlainChunk(fdata)) => fresult = CollapseLF(RemoveCR(fdata))

\* The first terminator byte after the introducer at s, 0 if the chunk has none.
SeqEnd(d, s) ==
    LET T == {t \in (s + 2)..Len(d) : d[t] >= 64 /\ d[t] <= 126}
    IN IF T = {} THEN 0 ELSE CHOOSE t \in T : \A u \in T : t <= u

\* C10: when the filter is at an escape sequence that ends within the chunk,
\* the step appends exactly the sequence's bytes if the terminator is 'm' and
\* nothing otherwise, and continues with the byte after the terminator.
C10_SequenceKeptOrDropped ==
    [][(fpc = "loop" /\ fi < Len(fdata) /\ fdata[fi] = ESC /\ fdata[fi + 1] = LBRACKET
          /\ SeqEnd(fdata, fi) # 0) =>
          LET t == SeqEnd(fdata, fi) IN
            /\ fi' = t + 1
            /\ fpc' = "loop"
            /\ fresult' = IF fdata[t] = SGR_m
                           THEN fresult \o SubSeq(fdata, fi, t)
                           ELSE fresult]_vars

\* ESC [ H dropped, the H after it kept as an ordinary byte; ESC [ m kept
C10_Witness ==
    \/ fpc = "ret" /\ fdata = <<ESC, LBRACKET, CUP_H, CUP_H>> /\ fresult = <<CUP_H>>
    \/ fpc = "ret" /\ fdata = <<CUP_H, ESC, LBRACKET, SGR_m>>
                   /\ fresult = <<CUP_H, ESC, LBRACKET, SGR_m>>


\* C3: every byte read from the terminal master reaches every client that is
\* connected at that moment, also a client whose socket cannot take the whole
\* chunk at once: a broadcast write to a client whose end is open sends it the
\* whole chunk.
C3_EveryByteToEveryClient ==
    [][(MainWrite /\ conn[clients[mi]].peer = "open") => sent'[mi] = mdata]_vars

\* C6: the line that send writes to the endpoint before it closes its
\* connection is written to the master while the session runs: as long as the
\* child is alive the daemon never drops the connection of a client that has
\* written and closed with the line still unread in it.
C6_SentLineNotDiscarded ==
    [][\A c \in Conn :
          (/\ conn[c].st = "held" /\ conn[c].wrote /\ conn[c].peer = "closed"
           /\ conn'[c].st = "dropped" /\ dchild = "alive")
             => conn[c].inb = 0]_vars

\* C7: once the child is gone the daemon's main loop ends, closes the master
\* and removes the endpoint file, and the process exits; a child that is gone
\* is never replaced by a second one.
C7_DaemonExitsAfterChild ==
    /\ (dchild = "dead") ~> (mpc = "exited" /\ ~master_open /\ ~sock_file /\ ~running)
    /\ [][dchild = "dead" => dchild' = "dead"]_vars

C7_Witness ==
    /\ dchild = "dead" /\ mpc = "exited" /\ ~master_open /\ ~sock_file
    /\ Len(clients) = 2 /\ nprod > 0 /\ ptyOut = <<>>

\* The clients of the broadcast that were sent the whole chunk, in order.
RECURSIVE Survivors(_)
Survivors(k) ==
    IF k > Len(clients) THEN <<>>
    ELSE (IF sent[k] = mdata THEN <<clients[k]>> ELSE <<>>) \o Survivors(k + 1)

\* C8: when the write to a client fails during a broadcast, that client and no
\* other is removed: the clients left are exactly those that were sent the whole
\* chunk of this broadcast, in their order, each still held by the daemon, and
\* the main loop goes on to its next read.
C8_OnlyFailingClientRemoved ==
    [][MainRemove =>
          /\ Len(sent) = Len(clients)
          /\ clients' = Survivors(1)
          /\ \A c \in Range(Survivors(1)) : conn'[c] = conn[c] /\ conn[c].st = "held"
          /\ mpc' = "read" /\ running' /\ lock' = "free"]_vars

C8_Witness ==
    /\ mpc = "read" /\ lock = "free" /\ running
    /\ Len(sent) = 2 /\ sent[1] # mdata /\ sent[2] = mdata /\ main_to_remove = <<1>>
    /\ clients = <<2>> /\ conn[2].st = "held" /\ conn[1].st = "dropped"


\* C11: the filter is resumable: whatever the reads the terminal output
\* arrives in, once all of it has been read and logged the transcript is what
\* one call of the filter on the whole output returns. Stated for output with
\* no ESC byte in it, where no split can fall inside an escape sequence.
C11_ResumableAcrossChunks ==
    (fpc = "read" /\ stream = <<>> /\ \A k \in 1..Len(consumed) : consumed[k] # ESC)
        => transcript = filter_for_log(consumed)


\* C12: a status query probes the recorded process: it reports running exactly
\* when the record parses and its process is live; a record whose process is
\* dead is reported as not running and the whole storage directory is removed;
\* an absent or unparsable record is reported as not running and nothing is
\* touched. No process changes state.
C12_StatusProbesTheRecord ==
    [][\A p \in Cli : Status(p) =>
          /\ ret'.cmd = "status"
          /\ (ret'.res = "Running") <=> LiveRecord
          /\ ~LiveRecord => ret'.res = "NotRunning"
          /\ LiveRecord => fs' = fs
          /\ StaleRecord => fs' = NoStorage
          /\ fs.state \in {"none", "partial"} => fs' = fs
          /\ UNCHANGED <<child, daemon, nsess>>]_vars

\* One start and one status have run, the child is dead, and the status has
\* answered not running and left no storage behind.
C12_Witness ==
    /\ cmds = 2 /\ nsess = 1 /\ \A p \in Cli : cli[p].pc = "idle"
    /\ child[1] = "dead"
    /\ ret.cmd = "status" /\ ret.res = "NotRunning"
    /\ fs = NoStorage

\* C13: attach, send and stop issued when there is no live record (absent,
\* unparsable, or its process dead) return the not-running error at once: the
\* invocation ends there (no connection, no input, no polling), and no process
\* is signalled or otherwise changed.
C13_RefusedWhenNotRunning ==
    [][\A p \in Cli :
          ((Attach(p) \/ Send(p) \/ StopCheck(p)) /\ ~LiveRecord) =>
              /\ ret'.res = "NotRunning" /\ ~ret'.sigkill
              /\ ret'.cmd \in {"attach", "send", "stop"}
              /\ cli'[p] = Idle
              /\ UNCHANGED <<child, daemon, nsess>>]_vars

\* A stop was refused although a record exists and the daemon of its session is
\* serving: the recorded process is dead.
C13_Witness ==
    /\ ret.cmd = "stop" /\ ret.res = "NotRunning"
    /\ nsess = 1 /\ child[1] = "dead" /\ daemon[1] = "serving"
    /\ cmds = 2


(***************************************************************************)
(* Claims about one start, process by process                              *)
(***************************************************************************)

Returned == spawn["inv"] = "returned"

\* C14: start returns only after the child has been forked, the first fork of
\* the daemon has been made and the record has been written with the pid that
\* start reports; and it never waits for another process: while it has not
\* returned or failed, its next step can be taken whatever the others do.
\* (The second fork and the detaching happen in the forked process and may
\* come after the return.)
C14_ReturnsAfterForksAndRecord ==
    /\ Returned => /\ spawn["chd"] # "none"
                   /\ spawn["mid"] # "none"
                   /\ state_file = Pid["chd"]
    /\ spawn["inv"] \notin {"returned", "failed"} => ENABLED Invoker

\* start has returned with the record written while neither the child nor the
\* first fork of the daemon has taken a step of its own.
C14_Witness ==
    /\ Returned /\ state_file # 0
    /\ spawn["chd"] = "drop_master"
    /\ spawn["mid"] = "setsid"

\* C14 as stated: start returns only after the child has been forked, the
\* daemon has been forked and detached, and the record has been written.
C14_ReturnsAfterDaemonDetached ==
    Returned => /\ spawn["chd"] # "none"
                /\ spawn["dmn"] # "none"
                /\ state_file # 0

\* C15: a start that cannot allocate the terminal pair or whose daemon cannot
\* bind the socket has failed and has left no record.
C15_FailureLeavesNoRecord ==
    (spawn["inv"] = "failed" \/ spawn["dmn"] = "panicked")
        => (state_file = 0 /\ ~Returned)

C19_TerminalEndsOwnership ==
    /\ slave_fd \cap {"mid", "dmn"} = {}
    /\ Returned => /\ "inv" \notin (master_fd \union slave_fd)
                   /\ slave_fd \subseteq {"chd"}
    /\ spawn["chd"] \in {"exec", "java", "exited"} => "chd" \notin master_fd
    /\ (Returned /\ spawn["chd"] # "drop_master" /\ spawn["mid"] = "exited")
           => master_fd \subseteq {"dmn"}
    /\ spawn["dmn"] \in {"init", "serving"} => "dmn" \in master_fd
    /\ closed = (IF spawn["dmn"] = "exited" THEN 1 ELSE 0)
    /\ spawn["dmn"] \in {"exited", "panicked"} => "dmn" \notin master_fd

\* start has returned, the program runs on the slave and the serving daemon
\* alone holds the master.
C19_Witness ==
    /\ Returned
    /\ spawn["chd"] = "java" /\ slave_fd = {"chd"}
    /\ spawn["dmn"] = "serving" /\ master_fd = {"dmn"}
    /\ spawn["mid"] = "exited"

\* C19 as stated: once start has returned the slave is open in the child only
\* and the master in the daemon only; the daemon never holds the slave and
\* closes the master exactly once.
C19_OnlyChildAndDaemonOnceReturned ==
    /\ "dmn" \notin slave_fd
    /\ closed <= 1
    /\ Returned => /\ slave_fd \subseteq {"chd"}
                   /\ master_fd \subseteq {"dmn"}


(***************************************************************************)
(* Claims about the daemon's lock and its loops                            *)
(***************************************************************************)

\* C17: the lock on the client set is never held across an I/O call: the main
\* loop is never at a client write of its broadcast while it holds the lock,
\* and the forwarding thread is never in its pass of client reads and master
\* writes while it holds the lock.
C17_LockNeverHeldAcrossIO ==
    /\ ~(lock = "main" /\ mpc = "bcast" /\ mi <= Len(clients))
    /\ ~(lock = "fwd" /\ wpc = "scan" /\ clients # <<>>)

\* C18: no iteration of the main loop waits without bound: whenever the main
\* loop is at its read of the master it gets past it, so that the check of the
\* child at the top of the loop is run again, also when the terminal stays
\* silent.
C18_MainLoopNeverBlocks == (mpc = "read") ~> (mpc # "read")


(***************************************************************************)
(* Claims about an attached client                                         *)
(***************************************************************************)

\* C20: after an interrupt is delivered to an attached client the running flag
\* is cleared and stays cleared, both forwarding tasks stop, and attach returns
\* with the terminal's original settings restored (they are restored whenever
\* it returns); until the process exits the client does not close the
\* connection, and no step of the client touches the session's storage, its
\* processes or the daemon.
C20_InterruptDetaches ==
    /\ (sigint = "pending") ~> (~a_running)
    /\ (sigint = "pending") ~> (/\ out_pc = "done" /\ in_pc = "done"
                                /\ att_pc \in {"returned", "exited"}
                                /\ termios = "orig")
    /\ [](att_pc \in {"returned", "exited"} => termios = "orig")
    /\ [][~a_running => ~a_running']_vars
    /\ [][a_stream' = "dropped" => att_pc' = "exited"]_vars
    /\ [][UNCHANGED <<lifeVars, dmnVars, spawnVars>>]_vars

\* An interrupt has been taken, both tasks have stopped on the flag while the
\* daemon still holds the connection open, and attach has returned with the
\* terminal restored.
C20_Witness ==
    /\ sigint = "taken" /\ ~a_running
    /\ out_pc = "done" /\ in_pc = "done"
    /\ att_pc = "returned" /\ termios = "orig"
    /\ a_stream = "open"


(***************************************************************************)
(* Claims about the transcript, concurrent starts and the endpoint         *)
(***************************************************************************)

\* C21: no carriage return ever appears in the transcript, nor in what the
\* filter has kept so far, whatever the chunk holds, also when the carriage
\* return lies between an escape introducer and its terminator.
C21_NoCarriageReturnInTranscript ==
    /\ \A k \in 1..Len(transcript) : transcript[k] # CR
    /\ \A k \in 1..Len(fresult) : fresult[k] # CR


\* C22: there are never two live children for one target, also when two start
\* requests interleave: at most one of them spawns.
C22_AtMostOneLiveChild ==
    Cardinality({g \in Sess : child[g] = "alive"}) <= 1


\* C23: a daemon's shutdown removes only the endpoint of its own session: when
\* the daemon of session g cleans up, the endpoint file, if there is one, is
\* the one g bound, never the one the daemon of a later session has bound.
C23_CleanupRemovesOwnEndpointOnly ==
    [][\A g \in Sess : DaemonShutdown(g) => fs.sock \in {0, g}]_vars


\* C24: once start has returned and the recorded process is live the endpoint
\* is bound and its daemon accepts: an attach or a send issued while the
\* record is live never fails with a connection error.
C24_LiveRecordIsReachable ==
    [][\A p \in Cli : ((Attach(p) \/ Send(p)) /\ LiveRecord)
                          => ret'.res # "ConnectionError"]_vars


(***************************************************************************)
(* Claims about the daemon's threads under load                            *)
(***************************************************************************)

\* C25: the daemon cannot deadlock: there is no state in which the forwarding
\* thread waits in its write to the master with the lock held, the main loop
\* waits for the lock, and the live child waits in a write of output that the
\* main loop is not reading.
C25_NoDeadlock ==
    ~(/\ lock = "fwd" /\ wpc = "scan" /\ FwdBlocked
      /\ mpc = "lock"
      /\ dchild = "alive" /\ cblocked /\ Len(ptyOut) = OutCap)


\* The sequence cl without the entries at the indices in F, from index k on.
RECURSIVE WithoutFrom(_, _, _)
WithoutFrom(cl, F, k) ==
    IF k > Len(cl) THEN <<>>
    ELSE (IF k \in F THEN <<>> ELSE <<cl[k]>>) \o WithoutFrom(cl, F, k + 1)

\* C26: removal from the client set is exact under concurrency. A forwarding
\* pass removes exactly the clients whose read it found closed, and the
\* broadcast exactly the clients whose write failed in it; every index flagged
\* lies inside the set; the clients left keep their order and their
\* connections; and from the moment a thread takes the lock until its removal
\* the set does not change, so that no connection is admitted in between.
C26_RemovalExact ==
    /\ [][FwdPass =>
            LET F == {k \in 1..Len(clients) : ReadsEof(k)} IN
              /\ Range(ScanToRemove(1)) = F
              /\ clients' = WithoutFrom(clients, F, 1)
              /\ \A k \in 1..Len(clients) :
                    k \notin F => conn'[clients[k]].st = "held"]_vars
    /\ [][MainRemove =>
            LET F == {k \in 1..Len(clients) : sent[k] # mdata} IN
              /\ Range(main_to_remove) = F
              /\ clients' = WithoutFrom(clients, F, 1)
              /\ \A k \in 1..Len(clients) :
                    k \notin F => conn'[clients[k]] = conn[clients[k]]]_vars
    /\ [][(lock # "free" /\ ~FwdPass /\ ~MainRemove) => clients' = clients]_vars
    /\ [](mpc = "bcast" => /\ Range(main_to_remove) \subseteq 1..Len(clients)
                           /\ Len(sent) = mi - 1 /\ mi <= Len(clients) + 1)

\* No broadcast has taken place, the forwarding pass has removed the first
\* client, which had closed, and the second, which is healthy, is still held.
C26_Witness ==
    /\ sent = <<>> /\ mpc = "read" /\ wpc = "check" /\ lock = "free"
    /\ conn[1].st = "dropped"
    /\ clients = <<2>> /\ conn[2].st = "held" /\ conn[2].peer = "open"

====
